---- MODULE Spec2Model ----
(***************************************************************************)
(* Model of chicksha2.py: validation of a local model directory against    *)
(* the manifest published by the repository host, followed by the optional *)
(* remove-and-re-download repair.                                          *)
(*                                                                         *)
(* File names are sequences of dot-separated components, e.g.              *)
(* <<"a", "safetensors">> is "a.safetensors".  Digests and answers typed   *)
(* by the operator are sequences of characters so that str.lower() is a    *)
(* real conversion.  File contents are sequences of 64 KiB blocks.         *)
(***************************************************************************)
EXTENDS Integers, Sequences, FiniteSets, TLC

(***************************************************************************)
(* Bounds of the model.                                                    *)
(***************************************************************************)
MaxFiles == 2      \* entries in the file listing returned by the host
MaxExt == 1        \* actions of the external writer during one run
MaxCpus == 2       \* largest value os.cpu_count() may report

(***************************************************************************)
(* File names.                                                             *)
(***************************************************************************)
SAFE == <<"a", "safetensors">>
CFG == <<"config", "json">>
TOK == <<"tokenizer", "json">>
IDX == <<"model", "safetensors", "index", "json">>
XIDX == <<"x", "index", "json">>
README == <<"README", "md">>
EXTRA == <<"extra", "bin">>
SUBDIR == <<"sub">>

\* names the host may list, and names that may exist in the local directory
ManifestNames == {SAFE, CFG, TOK, IDX, XIDX, README}
LocalNames == {SAFE, README, EXTRA}
AllNames == ManifestNames \cup LocalNames \cup {SUBDIR}

\* file contents: sequences of blocks
Contents == {<<0>>, <<0, 1>>}
Absent == <<-1>>

(***************************************************************************)
(* str.lower() on sequences of characters.                                 *)
(***************************************************************************)
LowerChar(c) ==
    CASE c = "Y" -> "y"
      [] c = "N" -> "n"
      [] c = "A" -> "a"
      [] c = "B" -> "b"
      [] c = "D" -> "d"
      [] OTHER -> c

Lower(s) == [i \in DOMAIN s |-> LowerChar(s[i])]

(***************************************************************************)
(* hashlib.sha256: update() appends a block to the hashed stream and       *)
(* hexdigest() is an injective lowercase rendering of that stream.         *)
(***************************************************************************)
HexDigest(hashed) ==
    <<"d">> \o [i \in 1..Len(hashed) |-> IF hashed[i] = 0 THEN "a" ELSE "b"]

\* sentinels of calculate_local_sha256_and_size and of the collection loop
PyNone == <<"None">>
ERROR == <<"e", "r", "r", "o", "r">>
ERROR_PROCESSING == <<"e", "r", "r", "o", "r", "_", "p", "r", "o", "c", "e", "s", "s", "i", "n", "g">>

(***************************************************************************)
(* The host's answer to the metadata request.                              *)
(***************************************************************************)
Blob(n, s, z) == [Name |-> n, Type |-> "blob", Sha256 |-> s, Size |-> z]

FileInfos ==
    {Blob(SAFE, <<"D", "A">>, 1),
     Blob(SAFE, <<"d", "a">>, 2), Blob(SAFE, <<"d", "a", "b">>, 2),
     Blob(README, <<"d", "a">>, 1),
     Blob(CFG, <<"d", "b">>, 1), Blob(TOK, <<"d", "b">>, 1),
     Blob(IDX, <<"d", "b">>, 1), Blob(XIDX, <<"d", "b">>, 1),
     [Name |-> SUBDIR, Type |-> "tree"],
     [Name |-> SAFE, Type |-> "blob", Size |-> 1]}

RECURSIVE SeqsUpTo(_, _)
SeqsUpTo(S, n) ==
    IF n = 0 THEN {<<>>}
    ELSE LET shorter == SeqsUpTo(S, n - 1)
         IN  shorter \cup {Append(s, e) : s \in {t \in shorter : Len(t) = n - 1}, e \in S}

FileLists == SeqsUpTo(FileInfos, MaxFiles)

\* parsed JSON bodies: wrong code, missing Data, missing Files, well-formed
Bodies ==
    {[Code |-> 500, Data |-> [Files |-> <<Blob(SAFE, <<"d", "a">>, 1)>>]],
     [Code |-> 200],
     [Code |-> 200, Data |-> [Total |-> 0]]}
    \cup {[Code |-> 200, Data |-> [Files |-> fl]] : fl \in FileLists}

\* outcomes of requests.get / raise_for_status / response.json
Responses ==
    {[kind |-> "transport"], [kind |-> "http_status"], [kind |-> "bad_json"]}
    \cup {[kind |-> "json", data |-> b] : b \in Bodies}

\* how a request ended, read off the response alone
ResponseKind(resp) ==
    IF resp.kind # "json" THEN resp.kind
    ELSE IF "Code" \notin DOMAIN resp.data \/ resp.data.Code # 200 THEN "bad_code"
    ELSE IF "Data" \notin DOMAIN resp.data THEN "no_data"
    ELSE IF "Files" \notin DOMAIN resp.data.Data THEN "no_files"
    ELSE LET files == resp.data.Data.Files
         IN  IF \E i \in DOMAIN files :
                    /\ "Type" \in DOMAIN files[i] /\ files[i].Type = "blob"
                    /\ ~({"Name", "Sha256", "Size"} \subseteq DOMAIN files[i])
             THEN "bad_entry"
             ELSE "listing"

(***************************************************************************)
(* Python dict with insertion order: keys in order, values by key.         *)
(***************************************************************************)
EmptyDict == [keys |-> <<>>, val |-> <<>>]

InSeq(e, s) == \E i \in DOMAIN s : s[i] = e

IndexOf(e, s) == CHOOSE i \in DOMAIN s : s[i] = e

HasKey(d, k) == InSeq(k, d.keys)

DictGet(d, k) == d.val[IndexOf(k, d.keys)]

DictSet(d, k, v) ==
    IF HasKey(d, k)
    THEN [d EXCEPT !.val[IndexOf(k, d.keys)] = v]
    ELSE [keys |-> Append(d.keys, k), val |-> Append(d.val, v)]

(***************************************************************************)
(* get_official_file_metadata: the value it returns for a response, or the *)
(* fact that an exception leaves it.                                       *)
(***************************************************************************)
IsBlob(f_info) == "Type" \in DOMAIN f_info /\ f_info.Type = "blob"

HasBlobKeys(f_info) == {"Name", "Sha256", "Size"} \subseteq DOMAIN f_info

\* a listing whose digests are stored as the host sent them
NormalizeShaRaw(sha) == sha

\* line 28
NormalizeSha(sha) == Lower(sha)

RECURSIVE BuildMetadata(_, _, _)
BuildMetadata(files, i, metadata) ==
    IF i > Len(files) THEN [tag |-> "dict", dict |-> metadata]
    ELSE IF ~IsBlob(files[i]) THEN BuildMetadata(files, i + 1, metadata)
    ELSE IF ~HasBlobKeys(files[i]) THEN [tag |-> "raise", dict |-> EmptyDict]
    ELSE BuildMetadata(files, i + 1,
             DictSet(metadata, files[i].Name,
                     [sha256 |-> NormalizeSha(files[i].Sha256), size |-> files[i].Size]))

\* a shape test that does not look at the code of the body
ShapeOkAnyCode(data) ==
    /\ "Data" \in DOMAIN data
    /\ "Files" \in DOMAIN data.Data

\* line 22
ShapeOk(data) ==
    /\ "Code" \in DOMAIN data /\ data.Code = 200
    /\ "Data" \in DOMAIN data
    /\ "Files" \in DOMAIN data.Data

get_official_file_metadata(resp) ==
    IF resp.kind \in {"transport", "http_status", "bad_json"}
    THEN [tag |-> "none", dict |-> EmptyDict]
    ELSE IF ShapeOk(resp.data)
         THEN BuildMetadata(resp.data.Data.Files, 1, EmptyDict)
         ELSE [tag |-> "none", dict |-> EmptyDict]

(***************************************************************************)
(* Paths and the critical-file test of the collection loop.                *)
(***************************************************************************)
LOCAL_MODEL_DIR == "/AISPK/Qwen/Qwen3-235B-A22B/"

PathJoin(dir, filename) == [dir |-> dir, name |-> filename]

\* filename.endswith("." + ext)
EndsWithExt(filename, ext) ==
    Len(filename) >= 2 /\ filename[Len(filename)] = ext

\* an allow-list that forgets tokenizer.json
IsCriticalNoTokenizer(filename) ==
    \/ EndsWithExt(filename, "safetensors")
    \/ filename \in {CFG, IDX}

\* a test that reports every absent file
IsCriticalAlways(filename) == TRUE

\* line 98
IsCritical(filename) ==
    \/ EndsWithExt(filename, "safetensors")
    \/ filename \in {CFG, TOK, IDX}

MISSING_LOCALLY == "Missing locally"

(***************************************************************************)
(* State.                                                                  *)
(***************************************************************************)
VARIABLES
    pc,                 \* position of the main script
    dirExists,          \* LOCAL_MODEL_DIR exists
    fs,                 \* local directory: name -> contents or Absent
    extLeft,            \* remaining actions of the external writer
    fetched,            \* how the metadata request ended
    official_metadata,  \* dict filename -> [sha256, size]
    problematic_files,  \* list of [name, reason]
    files_to_process,   \* list of [name, path]
    keyIdx,             \* position of the loop over official_metadata.keys()
    executor,           \* max_workers of the live thread pool, 0 when there is none
    futures,            \* submitted digest tasks, in submission order
    results,            \* dict filename -> [sha256, size], in completion order
    files_to_remove,    \* files_to_remove_for_redownload
    probIdx,            \* position of the loop building the removal list
    remIdx,             \* position of the removal loop
    asked,              \* prompts shown so far, with the operator's answers
    attempts,           \* paths passed to os.remove, with the outcome
    fetchCalls,         \* outcomes of the calls of attempt_redownload
    declaredValid       \* the "All checked files are VALID" summary was printed

vars == <<pc, dirExists, fs, extLeft, fetched, official_metadata, problematic_files,
          files_to_process, keyIdx, executor, futures, results,
          files_to_remove, probIdx, remIdx, asked, attempts, fetchCalls,
          declaredValid>>

PathExists(path) == path.dir = LOCAL_MODEL_DIR /\ fs[path.name] # Absent

\* the directories the file system can start in
InitialDirs ==
    {[n \in AllNames |->
        IF n = SAFE THEN s
        ELSE IF n = README THEN r
        ELSE IF n = EXTRA THEN <<1>> ELSE Absent] :
        s \in Contents \cup {Absent}, r \in {<<0>>, Absent}}

Init ==
    /\ pc = "start"
    /\ dirExists \in BOOLEAN
    /\ IF dirExists THEN fs \in InitialDirs
                    ELSE fs = [n \in AllNames |-> Absent]
    /\ extLeft = MaxExt
    /\ fetched = "pending"
    /\ official_metadata = EmptyDict
    /\ problematic_files = <<>>
    /\ files_to_process = <<>>
    /\ keyIdx = 1
    /\ executor = 0
    /\ futures = <<>>
    /\ results = EmptyDict
    /\ files_to_remove = <<>>
    /\ probIdx = 1
    /\ remIdx = 1
    /\ asked = <<>>
    /\ attempts = <<>>
    /\ fetchCalls = <<>>
    /\ declaredValid = FALSE

(***************************************************************************)
(* Lines 79-86: directory check and manifest fetch.                        *)
(***************************************************************************)
CheckLocalDir ==
    /\ pc = "start"
    /\ pc' = IF dirExists THEN "fetch" ELSE "exit1"
    /\ UNCHANGED <<dirExists, fs, extLeft, fetched, official_metadata, problematic_files,
                   files_to_process, keyIdx, executor, futures, results,
                   files_to_remove, probIdx, remIdx, asked, attempts,
                   fetchCalls, declaredValid>>

FetchManifest ==
    /\ pc = "fetch"
    /\ \E resp \in Responses :
         LET r == get_official_file_metadata(resp)
         IN  /\ fetched' = ResponseKind(resp)
             /\ official_metadata' = r.dict
             /\ pc' = IF r.tag = "raise" THEN "crashed"
                      ELSE IF r.tag = "none" \/ r.dict.keys = <<>> THEN "exit1"
                      ELSE "collect"
    /\ UNCHANGED <<dirExists, fs, extLeft, problematic_files,
                   files_to_process, keyIdx, executor, futures, results,
                   files_to_remove, probIdx, remIdx, asked, attempts,
                   fetchCalls, declaredValid>>

(***************************************************************************)
(* Lines 93-100: one iteration of the loop over the manifest's names.      *)
(***************************************************************************)
CollectFile ==
    /\ pc = "collect"
    /\ keyIdx <= Len(official_metadata.keys)
    /\ LET filename == official_metadata.keys[keyIdx]
           local_filepath == PathJoin(LOCAL_MODEL_DIR, filename)
       IN  IF PathExists(local_filepath)
           THEN /\ files_to_process' =
                       Append(files_to_process, [name |-> filename, path |-> local_filepath])
                /\ UNCHANGED problematic_files
           ELSE /\ problematic_files' =
                       IF IsCritical(filename)
                       THEN Append(problematic_files,
                                   [name |-> filename, reason |-> <<MISSING_LOCALLY>>])
                       ELSE problematic_files
                /\ UNCHANGED files_to_process
    /\ keyIdx' = keyIdx + 1
    /\ UNCHANGED <<pc, dirExists, fs, extLeft, fetched, official_metadata, executor,
                   futures, results, files_to_remove, probIdx, remIdx, asked,
                   attempts, fetchCalls, declaredValid>>

(***************************************************************************)
(* Lines 102-107: nothing to validate.                                     *)
(***************************************************************************)
\* an answer test that takes everything but "n" for a yes
YesUnlessNo(answer) == Lower(answer) # <<"n">>

\* .lower() == 'y'
Yes(answer) == Lower(answer) = <<"y">>

\* what the operator may type at a prompt: accepted after lower(), refused,
\* and refused although it starts with y
Answers == {<<"Y">>, <<"n">>, <<"y", "e", "s">>}

\* an empty work list that falls through to the summary
NoLocalFilesFallThrough ==
    /\ pc = "collect"
    /\ keyIdx > Len(official_metadata.keys)
    /\ files_to_process = <<>>
    /\ pc' = IF problematic_files # <<>> THEN "prompt_missing" ELSE "summary"
    /\ UNCHANGED <<dirExists, fs, extLeft, fetched, official_metadata, problematic_files,
                   files_to_process, keyIdx, executor, futures, results,
                   files_to_remove, probIdx, remIdx, asked, attempts,
                   fetchCalls, declaredValid>>

NoLocalFiles ==
    /\ pc = "collect"
    /\ keyIdx > Len(official_metadata.keys)
    /\ files_to_process = <<>>
    /\ pc' = IF problematic_files # <<>> THEN "prompt_missing" ELSE "exit0"
    /\ UNCHANGED <<dirExists, fs, extLeft, fetched, official_metadata, problematic_files,
                   files_to_process, keyIdx, executor, futures, results,
                   files_to_remove, probIdx, remIdx, asked, attempts,
                   fetchCalls, declaredValid>>

PromptMissing ==
    /\ pc = "prompt_missing"
    /\ \E answer \in Answers :
         /\ asked' = Append(asked, [prompt |-> "download", answer |-> answer])
         /\ pc' = IF Yes(answer) THEN "redownload_missing" ELSE "exit0"
    /\ UNCHANGED <<dirExists, fs, extLeft, fetched, official_metadata, problematic_files,
                   files_to_process, keyIdx, executor, futures, results,
                   files_to_remove, probIdx, remIdx, attempts, fetchCalls,
                   declaredValid>>

(***************************************************************************)
(* Lines 113-118: the pool is sized and one task per file is submitted.    *)
(***************************************************************************)
MAX_POOL == 8

Min(a, b) == IF a <= b THEN a ELSE b

\* min(8, os.cpu_count() or 1); cpus = 0 stands for cpu_count() = None
PoolSize(cpus) == Min(MAX_POOL, IF cpus = 0 THEN 1 ELSE cpus)

NoResult == [exc |-> FALSE, sha |-> PyNone, size |-> 0]

NewFuture(f) ==
    [name |-> f.name, path |-> f.path, st |-> "queued", size |-> 0,
     hashed |-> <<>>, orphan |-> Absent, out |-> NoResult, collected |-> FALSE]

StartScan ==
    /\ pc = "collect"
    /\ keyIdx > Len(official_metadata.keys)
    /\ files_to_process # <<>>
    /\ \E cpus \in 0..MaxCpus : executor' = PoolSize(cpus)
    /\ futures' = [i \in DOMAIN files_to_process |-> NewFuture(files_to_process[i])]
    /\ pc' = "scan"
    /\ UNCHANGED <<dirExists, fs, extLeft, fetched, official_metadata, problematic_files,
                   files_to_process, keyIdx, results, files_to_remove, probIdx,
                   remIdx, asked, attempts, fetchCalls, declaredValid>>

(***************************************************************************)
(* calculate_local_sha256_and_size, run by a worker of the pool.           *)
(***************************************************************************)
Running(i) == futures[i].st \in {"getsize", "open", "read", "handler"}

scanUnchanged == <<pc, dirExists, fs, extLeft, fetched, official_metadata,
                   problematic_files, files_to_process, keyIdx, executor,
                   files_to_remove, probIdx, remIdx, asked, attempts,
                   fetchCalls, declaredValid>>

\* the call returns or raises: its locals are gone, the future holds the outcome
Done(i, out) ==
    futures' = [futures EXCEPT ![i].st = "done", ![i].size = 0,
                               ![i].hashed = <<>>, ![i].orphan = Absent,
                               ![i].out = out]

Finish(i, sha, size) == Done(i, [exc |-> FALSE, sha |-> sha, size |-> size])

\* a free worker takes the oldest queued task
TaskStart(i) ==
    /\ pc = "scan"
    /\ futures[i].st = "queued"
    /\ \A j \in 1..(i - 1) : futures[j].st # "queued"
    /\ Cardinality({j \in DOMAIN futures : Running(j)}) < executor
    /\ futures' = [futures EXCEPT ![i].st = "getsize"]
    /\ UNCHANGED <<scanUnchanged, results>>

\* line 47
TaskGetSize(i) ==
    /\ pc = "scan"
    /\ futures[i].st = "getsize"
    /\ IF PathExists(futures[i].path)
       THEN futures' = [futures EXCEPT ![i].st = "open",
                                       ![i].size = Len(fs[futures[i].name])]
       ELSE Finish(i, PyNone, -1)
    /\ UNCHANGED <<scanUnchanged, results>>

\* line 48
TaskOpen(i) ==
    /\ pc = "scan"
    /\ futures[i].st = "open"
    /\ IF PathExists(futures[i].path)
       THEN futures' = [futures EXCEPT ![i].st = "read"]
       ELSE Finish(i, PyNone, -1)
    /\ UNCHANGED <<scanUnchanged, results>>

\* what the open handle reads: the unlinked file if the name was removed
Stream(i) == IF futures[i].orphan # Absent THEN futures[i].orphan
             ELSE fs[futures[i].name]

\* lines 49-51: one f.read(65536); the empty read ends the loop
TaskRead(i) ==
    /\ pc = "scan"
    /\ futures[i].st = "read"
    /\ LET pos == Len(futures[i].hashed)
       IN  IF pos < Len(Stream(i))
           THEN futures' = [futures EXCEPT
                               ![i].hashed = Append(@, Stream(i)[pos + 1])]
           ELSE Finish(i, Lower(HexDigest(futures[i].hashed)), futures[i].size)
    /\ UNCHANGED <<scanUnchanged, results>>

\* line 54: an exception other than FileNotFoundError
TaskIOError(i) ==
    /\ pc = "scan"
    /\ futures[i].st \in {"getsize", "open", "read"}
    /\ futures' = [futures EXCEPT ![i].st = "handler"]
    /\ UNCHANGED <<scanUnchanged, results>>

\* lines 55-56
HandlerReturn(i) ==
    /\ pc = "scan"
    /\ futures[i].st = "handler"
    /\ Finish(i, ERROR, -2)
    /\ UNCHANGED <<scanUnchanged, results>>

\* line 55: the print of the handler raises, the exception leaves the task
HandlerRaise(i) ==
    /\ pc = "scan"
    /\ futures[i].st = "handler"
    /\ Done(i, [exc |-> TRUE, sha |-> PyNone, size |-> 0])
    /\ UNCHANGED <<scanUnchanged, results>>

(***************************************************************************)
(* Lines 119-128: the main thread takes a completed future.                *)
(***************************************************************************)
\* the name of the file submitted at the position of the completion count
FileOfFutureByCount(i) == files_to_process[Len(results.keys) + 1].name

\* line 120: future_to_file[future]
FileOfFuture(i) == futures[i].name

CollectResult(i) ==
    /\ pc = "scan"
    /\ futures[i].st = "done"
    /\ ~futures[i].collected
    /\ results' =
         DictSet(results, FileOfFuture(i),
                 IF futures[i].out.exc
                 THEN [sha256 |-> ERROR_PROCESSING, size |-> -3]
                 ELSE [sha256 |-> futures[i].out.sha, size |-> futures[i].out.size])
    /\ futures' = [futures EXCEPT ![i].collected = TRUE]
    /\ UNCHANGED scanUnchanged

\* a loop that ends when every task has finished, collected or not
ScanDoneNoWait ==
    /\ pc = "scan"
    /\ \A i \in DOMAIN futures : futures[i].st = "done"
    /\ executor' = 0
    /\ pc' = "reconcile"
    /\ UNCHANGED <<dirExists, fs, extLeft, fetched, official_metadata, problematic_files,
                   files_to_process, keyIdx, futures, results,
                   files_to_remove, probIdx, remIdx, asked, attempts,
                   fetchCalls, declaredValid>>

\* a loop that ends with the first collected result
ScanDoneEarly ==
    /\ pc = "scan"
    /\ \E i \in DOMAIN futures : futures[i].collected
    /\ executor' = 0
    /\ pc' = "reconcile"
    /\ UNCHANGED <<dirExists, fs, extLeft, fetched, official_metadata, problematic_files,
                   files_to_process, keyIdx, futures, results,
                   files_to_remove, probIdx, remIdx, asked, attempts,
                   fetchCalls, declaredValid>>

ScanDone ==
    /\ pc = "scan"
    /\ \A i \in DOMAIN futures : futures[i].collected
    /\ executor' = 0
    /\ pc' = "reconcile"
    /\ UNCHANGED <<dirExists, fs, extLeft, fetched, official_metadata, problematic_files,
                   files_to_process, keyIdx, futures, results,
                   files_to_remove, probIdx, remIdx, asked, attempts,
                   fetchCalls, declaredValid>>

(***************************************************************************)
(* Lines 133-166: reconciliation of the results with the manifest.         *)
(***************************************************************************)
NOT_FOUND_TEXT == "Local file not found during hash calculation"
ERROR_TEXT == "Error calculating local SHA256/Size"
SHA_TEXT == "SHA256 MISMATCH"

SizeText(local_size, official_size) ==
    "Size MISMATCH (local: " \o ToString(local_size) \o ", official: "
        \o ToString(official_size) \o ")"

\* a comparison that stops at the first mismatch
ReasonsFirstOnly(local_sha256, local_size, official_info) ==
    IF local_sha256 = PyNone THEN <<NOT_FOUND_TEXT>>
    ELSE IF local_sha256 = ERROR \/ local_sha256 = ERROR_PROCESSING THEN <<ERROR_TEXT>>
    ELSE IF local_size # official_info.size
         THEN <<SizeText(local_size, official_info.size)>>
         ELSE IF local_sha256 # official_info.sha256 THEN <<SHA_TEXT>> ELSE <<>>

\* a comparison that knows the 'error' sentinel only
ReasonsErrorOnly(local_sha256, local_size, official_info) ==
    IF local_sha256 = PyNone THEN <<NOT_FOUND_TEXT>>
    ELSE IF local_sha256 = ERROR THEN <<ERROR_TEXT>>
    ELSE (IF local_size # official_info.size
          THEN <<SizeText(local_size, official_info.size)>> ELSE <<>>)
         \o (IF local_sha256 # official_info.sha256 THEN <<SHA_TEXT>> ELSE <<>>)

\* lines 146-160: the list `reason`; empty means valid
Reasons(local_sha256, local_size, official_info) ==
    IF local_sha256 = PyNone THEN <<NOT_FOUND_TEXT>>
    ELSE IF local_sha256 = ERROR \/ local_sha256 = ERROR_PROCESSING THEN <<ERROR_TEXT>>
    ELSE (IF local_size # official_info.size
          THEN <<SizeText(local_size, official_info.size)>> ELSE <<>>)
         \o (IF local_sha256 # official_info.sha256 THEN <<SHA_TEXT>> ELSE <<>>)

\* '; '.join(reason), as the sequence of its pieces
RECURSIVE JoinReasons(_)
JoinReasons(reason) ==
    IF Len(reason) <= 1 THEN reason
    ELSE <<Head(reason), "; ">> \o JoinReasons(Tail(reason))

\* a substring test that never matches
TextContainsNever(text, piece) == FALSE

\* `piece in text` for the reason texts above
TextContains(text, piece) == InSeq(piece, text)

RECURSIVE ReconcileFrom(_, _)
ReconcileFrom(i, problems) ==
    IF i > Len(results.keys) THEN problems
    ELSE LET filename == results.keys[i]
             local == results.val[i]
         IN  IF ~HasKey(official_metadata, filename)
             THEN ReconcileFrom(i + 1, problems)
             ELSE LET reason == Reasons(local.sha256, local.size,
                                        DictGet(official_metadata, filename))
                  IN  IF reason = <<>>
                      THEN ReconcileFrom(i + 1, problems)
                      ELSE ReconcileFrom(i + 1,
                               Append(problems, [name |-> filename,
                                                 reason |-> JoinReasons(reason)]))

Reconcile ==
    /\ pc = "reconcile"
    /\ problematic_files' = ReconcileFrom(1, problematic_files)
    /\ pc' = "summary"
    /\ UNCHANGED <<dirExists, fs, extLeft, fetched, official_metadata, files_to_process,
                   keyIdx, executor, futures, results, files_to_remove,
                   probIdx, remIdx, asked, attempts, fetchCalls, declaredValid>>

(***************************************************************************)
(* Lines 169-208: summary, confirmations, removal and re-download.         *)
(***************************************************************************)
DeclareValid ==
    /\ pc = "summary"
    /\ problematic_files = <<>>
    /\ declaredValid' = TRUE
    /\ pc' = "finished"
    /\ UNCHANGED <<dirExists, fs, extLeft, fetched, official_metadata, problematic_files,
                   files_to_process, keyIdx, executor, futures, results,
                   files_to_remove, probIdx, remIdx, asked, attempts, fetchCalls>>

\* line 175
PromptRemove ==
    /\ pc = "summary"
    /\ problematic_files # <<>>
    /\ \E answer \in Answers :
         /\ asked' = Append(asked, [prompt |-> "remove_redownload", answer |-> answer])
         /\ pc' = IF Yes(answer) THEN "build" ELSE "finished"
    /\ UNCHANGED <<dirExists, fs, extLeft, fetched, official_metadata, problematic_files,
                   files_to_process, keyIdx, executor, futures, results,
                   files_to_remove, probIdx, remIdx, attempts, fetchCalls,
                   declaredValid>>

\* a loop that takes the name at the same position of files_to_process
BuildRemovalWrongList ==
    /\ pc = "build"
    /\ probIdx <= Len(problematic_files)
    /\ LET f_name == IF probIdx <= Len(files_to_process)
                     THEN files_to_process[probIdx].name
                     ELSE problematic_files[probIdx].name
           reason_text == problematic_files[probIdx].reason
           local_filepath_to_remove == PathJoin(LOCAL_MODEL_DIR, f_name)
       IN  files_to_remove' =
               IF /\ ~TextContains(reason_text, MISSING_LOCALLY)
                  /\ PathExists(local_filepath_to_remove)
               THEN Append(files_to_remove, local_filepath_to_remove)
               ELSE files_to_remove
    /\ probIdx' = probIdx + 1
    /\ UNCHANGED <<pc, dirExists, fs, extLeft, fetched, official_metadata,
                   problematic_files, files_to_process, keyIdx, executor,
                   futures, results, remIdx, asked, attempts, fetchCalls,
                   declaredValid>>

\* lines 178-182: one iteration of the loop over problematic_files
BuildRemoval ==
    /\ pc = "build"
    /\ probIdx <= Len(problematic_files)
    /\ LET f_name == problematic_files[probIdx].name
           reason_text == problematic_files[probIdx].reason
           local_filepath_to_remove == PathJoin(LOCAL_MODEL_DIR, f_name)
       IN  files_to_remove' =
               IF /\ ~TextContains(reason_text, MISSING_LOCALLY)
                  /\ PathExists(local_filepath_to_remove)
               THEN Append(files_to_remove, local_filepath_to_remove)
               ELSE files_to_remove
    /\ probIdx' = probIdx + 1
    /\ UNCHANGED <<pc, dirExists, fs, extLeft, fetched, official_metadata,
                   problematic_files, files_to_process, keyIdx, executor,
                   futures, results, remIdx, asked, attempts, fetchCalls,
                   declaredValid>>

AnyMissing ==
    \E k \in DOMAIN problematic_files :
        TextContains(problematic_files[k].reason, MISSING_LOCALLY)

\* lines 184, 200, 204
BuildDone ==
    /\ pc = "build"
    /\ probIdx > Len(problematic_files)
    /\ pc' = IF files_to_remove # <<>> THEN "prompt_confirm"
             ELSE IF AnyMissing THEN "redownload"
             ELSE "finished"
    /\ UNCHANGED <<dirExists, fs, extLeft, fetched, official_metadata, problematic_files,
                   files_to_process, keyIdx, executor, futures, results,
                   files_to_remove, probIdx, remIdx, asked, attempts,
                   fetchCalls, declaredValid>>

\* a refusal that skips the removals and still calls attempt_redownload
PromptConfirmFetchAnyway ==
    /\ pc = "prompt_confirm"
    /\ \E answer \in Answers :
         /\ asked' = Append(asked, [prompt |-> "confirm_removal", answer |-> answer])
         /\ pc' = IF Yes(answer) THEN "remove" ELSE "redownload"
    /\ UNCHANGED <<dirExists, fs, extLeft, fetched, official_metadata, problematic_files,
                   files_to_process, keyIdx, executor, futures, results,
                   files_to_remove, probIdx, remIdx, attempts, fetchCalls,
                   declaredValid>>

\* line 188
PromptConfirm ==
    /\ pc = "prompt_confirm"
    /\ \E answer \in Answers :
         /\ asked' = Append(asked, [prompt |-> "confirm_removal", answer |-> answer])
         /\ pc' = IF Yes(answer) THEN "remove" ELSE "finished"
    /\ UNCHANGED <<dirExists, fs, extLeft, fetched, official_metadata, problematic_files,
                   files_to_process, keyIdx, executor, futures, results,
                   files_to_remove, probIdx, remIdx, attempts, fetchCalls,
                   declaredValid>>

\* a loop that stops at the first OSError
RemoveFileStopOnError ==
    /\ pc = "remove"
    /\ remIdx <= Len(files_to_remove)
    /\ LET fp_rem == files_to_remove[remIdx]
       IN  \/ /\ PathExists(fp_rem)
              /\ fs' = [fs EXCEPT ![fp_rem.name] = Absent]
              /\ attempts' = Append(attempts, [path |-> fp_rem, removed |-> TRUE])
              /\ remIdx' = remIdx + 1
           \/ /\ UNCHANGED fs
              /\ attempts' = Append(attempts, [path |-> fp_rem, removed |-> FALSE])
              /\ remIdx' = Len(files_to_remove) + 1
    /\ UNCHANGED <<pc, dirExists, extLeft, fetched, official_metadata, problematic_files,
                   files_to_process, keyIdx, executor, futures, results,
                   files_to_remove, probIdx, asked, fetchCalls, declaredValid>>

\* lines 189-194: os.remove of one path; OSError is reported and skipped
RemoveFile ==
    /\ pc = "remove"
    /\ remIdx <= Len(files_to_remove)
    /\ LET fp_rem == files_to_remove[remIdx]
       IN  \/ /\ PathExists(fp_rem)
              /\ fs' = [fs EXCEPT ![fp_rem.name] = Absent]
              /\ attempts' = Append(attempts, [path |-> fp_rem, removed |-> TRUE])
           \/ /\ UNCHANGED fs
              /\ attempts' = Append(attempts, [path |-> fp_rem, removed |-> FALSE])
    /\ remIdx' = remIdx + 1
    /\ UNCHANGED <<pc, dirExists, extLeft, fetched, official_metadata, problematic_files,
                   files_to_process, keyIdx, executor, futures, results,
                   files_to_remove, probIdx, asked, fetchCalls, declaredValid>>

\* a loop that calls attempt_redownload on its way out and again after it
RemoveDoneFetchTwice ==
    /\ pc = "remove"
    /\ remIdx > Len(files_to_remove)
    /\ pc' = "redownload"
    /\ \E ok \in BOOLEAN : fetchCalls' = Append(fetchCalls, ok)
    /\ UNCHANGED <<dirExists, fs, extLeft, fetched, official_metadata, problematic_files,
                   files_to_process, keyIdx, executor, futures, results,
                   files_to_remove, probIdx, remIdx, asked, attempts,
                   declaredValid>>

RemoveDone ==
    /\ pc = "remove"
    /\ remIdx > Len(files_to_remove)
    /\ pc' = "redownload"
    /\ UNCHANGED <<dirExists, fs, extLeft, fetched, official_metadata, problematic_files,
                   files_to_process, keyIdx, executor, futures, results,
                   files_to_remove, probIdx, remIdx, asked, attempts,
                   fetchCalls, declaredValid>>

\* attempt_redownload: snapshot_download succeeds or raises; what it writes
\* under the cache directory is not read again by this run
AttemptRedownload ==
    /\ pc \in {"redownload", "redownload_missing"}
    /\ \E ok \in BOOLEAN : fetchCalls' = Append(fetchCalls, ok)
    /\ pc' = IF pc = "redownload" THEN "finished" ELSE "exit0"
    /\ UNCHANGED <<dirExists, fs, extLeft, fetched, official_metadata, problematic_files,
                   files_to_process, keyIdx, executor, futures, results,
                   files_to_remove, probIdx, remIdx, asked, attempts,
                   declaredValid>>

(***************************************************************************)
(* The external writer: another process working in the same directory.     *)
(***************************************************************************)
\* the file the other process works on
ExtNames == {SAFE}

Terminated == pc \in {"exit0", "exit1", "finished", "crashed"}

\* it acts while the run looks at the directory: during the collection loop,
\* the scan, and the building of the removal list (up to the last prompt)
ExtEnabled == extLeft > 0 /\ pc \in {"collect", "scan", "build"}

extUnchanged == <<pc, dirExists, fetched, official_metadata, problematic_files,
                  files_to_process, keyIdx, executor, results,
                  files_to_remove, probIdx, remIdx, asked, attempts,
                  fetchCalls, declaredValid>>

\* unlink: handles that are open keep reading the unlinked file
ExtRemove(n) ==
    /\ ExtEnabled
    /\ fs[n] # Absent
    /\ fs' = [fs EXCEPT ![n] = Absent]
    /\ futures' = [i \in DOMAIN futures |->
                      IF /\ futures[i].name = n
                         /\ futures[i].st = "read"
                         /\ futures[i].orphan = Absent
                      THEN [futures[i] EXCEPT !.orphan = fs[n]]
                      ELSE futures[i]]
    /\ extLeft' = extLeft - 1
    /\ UNCHANGED extUnchanged

ExtTruncate(n) ==
    /\ ExtEnabled
    /\ fs[n] # Absent
    /\ Len(fs[n]) >= 1
    /\ fs' = [fs EXCEPT ![n] = SubSeq(fs[n], 1, Len(fs[n]) - 1)]
    /\ extLeft' = extLeft - 1
    /\ UNCHANGED <<extUnchanged, futures>>

\* create the file or overwrite it in place
ExtWrite(n, c) ==
    /\ ExtEnabled
    /\ fs[n] # c
    /\ fs' = [fs EXCEPT ![n] = c]
    /\ extLeft' = extLeft - 1
    /\ UNCHANGED <<extUnchanged, futures>>

(***************************************************************************)
(* The run.                                                                *)
(***************************************************************************)
Next ==
    \/ CheckLocalDir
    \/ FetchManifest
    \/ CollectFile
    \/ NoLocalFiles
    \/ PromptMissing
    \/ StartScan
    \/ \E i \in DOMAIN futures : TaskStart(i)
    \/ \E i \in DOMAIN futures : TaskGetSize(i)
    \/ \E i \in DOMAIN futures : TaskOpen(i)
    \/ \E i \in DOMAIN futures : TaskRead(i)
    \/ \E i \in DOMAIN futures : TaskIOError(i)
    \/ \E i \in DOMAIN futures : HandlerReturn(i)
    \/ \E i \in DOMAIN futures : HandlerRaise(i)
    \/ \E i \in DOMAIN futures : CollectResult(i)
    \/ ScanDone
    \/ Reconcile
    \/ DeclareValid
    \/ PromptRemove
    \/ BuildRemoval
    \/ BuildDone
    \/ PromptConfirm
    \/ RemoveFile
    \/ RemoveDone
    \/ AttemptRedownload
    \/ \E n \in ExtNames : ExtRemove(n)
    \/ \E n \in ExtNames : ExtTruncate(n)
    \/ \E n \in ExtNames, c \in Contents : ExtWrite(n, c)

Spec == Init /\ [][Next]_vars

(***************************************************************************)
(* Properties.                                                             *)
(***************************************************************************)
YesTexts == {<<"y">>, <<"Y">>}

AnsweredYes(prompt) ==
    \E k \in DOMAIN asked : asked[k].prompt = prompt /\ asked[k].answer \in YesTexts

BothConfirmed == AnsweredYes("remove_redownload") /\ AnsweredYes("confirm_removal")

ProblemNames == {problematic_files[k].name : k \in DOMAIN problematic_files}

PostReconcile ==
    pc \in {"summary", "build", "prompt_confirm", "remove", "redownload", "finished"}

NormalEnd == pc \in {"exit0", "finished"}

Computed(local) == local.sha256 \notin {PyNone, ERROR, ERROR_PROCESSING}

\* C1: a step of the program removes a local file, or calls os.remove at
\* all, only when the operator has answered yes to the remove-and-re-download
\* prompt and to the separate "Confirm removal" prompt; otherwise the program
\* leaves the directory as it is.
C1_DeletionNeedsBothConfirmations ==
    [][((extLeft' = extLeft /\ fs' # fs) \/ attempts' # attempts) => BothConfirmed]_vars

C1_Witness ==
    /\ BothConfirmed
    /\ \E k \in DOMAIN attempts : attempts[k].removed /\ fs[attempts[k].path.name] = Absent

\* C2: a file recorded as "Missing locally" is never in the removal list and
\* never passed to os.remove, whatever the operator answers; it keeps the run
\* from declaring the model valid and a run that ends normally has shown a
\* repair prompt.
C2_MissingNeverRemoved ==
    \A k \in DOMAIN problematic_files :
        problematic_files[k].reason = <<MISSING_LOCALLY>> =>
            LET path == PathJoin(LOCAL_MODEL_DIR, problematic_files[k].name)
            IN  /\ ~InSeq(path, files_to_remove)
                /\ \A a \in DOMAIN attempts : attempts[a].path # path
                /\ ~declaredValid
                /\ NormalEnd => asked # <<>>

\* a missing file that another process created meanwhile, in a run that removed a file
C2_Witness ==
    /\ pc = "finished"
    /\ \E a \in DOMAIN attempts : attempts[a].removed
    /\ \E k \in DOMAIN problematic_files :
          /\ problematic_files[k].reason = <<MISSING_LOCALLY>>
          /\ fs[problematic_files[k].name] # Absent

\* C3: a manifest file that is present locally and whose computed size equals
\* the listed size and whose computed digest equals the listed digest, both
\* lowercased, is valid: it never appears in problematic_files.
C3_MatchingFileIsValid ==
    \A i \in DOMAIN results.keys :
        LET n == results.keys[i]
            local == results.val[i]
            listed == DictGet(official_metadata, n)
        IN  (/\ Computed(local)
             /\ local.size = listed.size
             /\ Lower(local.sha256) = Lower(listed.sha256))
            => n \notin ProblemNames

\* a.safetensors, which the host lists with an upper-case digest and size 1,
\* is found valid next to a file that is a problem
C3_Witness ==
    /\ pc = "finished"
    /\ problematic_files # <<>>
    /\ SAFE \notin ProblemNames
    /\ \E i \in DOMAIN results.keys :
          /\ results.keys[i] = SAFE
          /\ results.val[i] = [sha256 |-> <<"d", "a">>, size |-> 1]
          /\ DictGet(official_metadata, SAFE).size = 1

\* the text the claims expect for a computed result, <<>> when there is none
ExpectedText(local, official) ==
    LET sizeDiffers == local.size # official.size
        shaDiffers == local.sha256 # official.sha256
        sizeReason == SizeText(local.size, official.size)
    IN  IF sizeDiffers /\ shaDiffers THEN <<sizeReason, "; ", SHA_TEXT>>
        ELSE IF sizeDiffers THEN <<sizeReason>>
        ELSE IF shaDiffers THEN <<SHA_TEXT>>
        ELSE <<>>

\* C4: for a file whose digest was computed, size and digest are compared
\* with the manifest independently: after reconciliation the file has no
\* entry when both agree, and otherwise exactly one entry whose text is the
\* size reason, the digest reason, or both joined, as the case may be.
C4_AllReasonsRecorded ==
    PostReconcile =>
        \A i \in DOMAIN results.keys :
            LET n == results.keys[i]
                local == results.val[i]
                expected == ExpectedText(local, DictGet(official_metadata, n))
                entries == {k \in DOMAIN problematic_files : problematic_files[k].name = n}
            IN  Computed(local) =>
                    IF expected = <<>> THEN entries = {}
                    ELSE /\ Cardinality(entries) = 1
                         /\ \A k \in entries : problematic_files[k].reason = expected

\* a file of one block listed with two blocks and another digest
C4_Witness ==
    /\ PostReconcile
    /\ \E k \in DOMAIN problematic_files :
          problematic_files[k].reason = <<SizeText(1, 2), "; ", SHA_TEXT>>

\* names the collection loop has visited and found absent
ToProcessNames == {files_to_process[k].name : k \in DOMAIN files_to_process}

FoundAbsent ==
    {official_metadata.keys[k] : k \in 1..(keyIdx - 1)} \ ToProcessNames

RecordedMissing(n) ==
    \E k \in DOMAIN problematic_files :
        problematic_files[k] = [name |-> n, reason |-> <<MISSING_LOCALLY>>]

\* C5, as stated: an absent manifest name that ends in .safetensors or in
\* .index.json, or is config.json or tokenizer.json, is recorded as Missing
\* and the run does not declare the model valid.
C5_Original ==
    \A n \in FoundAbsent :
        (\/ EndsWithExt(n, "safetensors")
         \/ (Len(n) >= 3 /\ n[Len(n) - 1] = "index" /\ n[Len(n)] = "json")
         \/ n \in {CFG, TOK})
        => RecordedMissing(n) /\ ~declaredValid

\* C5, amended: an absent manifest name that ends in .safetensors, or is
\* exactly config.json, tokenizer.json or model.safetensors.index.json, is
\* recorded as Missing and the run does not declare the model valid.
C5_CriticalMissingRecorded ==
    \A n \in FoundAbsent :
        (\/ EndsWithExt(n, "safetensors")
         \/ n = <<"config", "json">>
         \/ n = <<"tokenizer", "json">>
         \/ n = <<"model", "safetensors", "index", "json">>)
        => RecordedMissing(n) /\ ~declaredValid

C5_Witness ==
    /\ NormalEnd
    /\ RecordedMissing(IDX)
    /\ RecordedMissing(TOK)

\* C6, as stated: an absent manifest name outside the allow-list is never in
\* problematic_files, is never submitted for hashing, and a run that ends
\* with no problem declares the model valid.
C6_Original ==
    \A n \in FoundAbsent :
        ~(EndsWithExt(n, "safetensors") \/ n \in {CFG, TOK, IDX}) =>
            /\ n \notin ProblemNames
            /\ \A i \in DOMAIN futures : futures[i].name # n
            /\ (NormalEnd /\ problematic_files = <<>>) => declaredValid

\* C6, amended: an absent manifest name outside the allow-list is never in
\* problematic_files, is never submitted for hashing, and a run that ends
\* with no problem declares the model valid provided at least one manifest
\* file was found in the local directory.
C6_NonCriticalAbsentIgnored ==
    \A n \in FoundAbsent :
        ~(EndsWithExt(n, "safetensors") \/ n \in {CFG, TOK, IDX}) =>
            /\ n \notin ProblemNames
            /\ \A i \in DOMAIN futures : futures[i].name # n
            /\ (NormalEnd /\ problematic_files = <<>> /\ files_to_process # <<>>)
                   => declaredValid

C6_Witness ==
    /\ pc = "finished"
    /\ declaredValid
    /\ FoundAbsent # {}
    /\ fs[SAFE] # Absent

\* C7, as stated: a run that ends normally has declared the model valid
\* exactly when problematic_files is empty.
C7_Original ==
    NormalEnd => (declaredValid <=> problematic_files = <<>>)

\* C7, amended: a run that ends normally has declared the model valid exactly
\* when problematic_files is empty and at least one manifest file was found
\* in the local directory; with none found the run ends without a verdict.
C7_ValidIffNoProblemAndSomethingChecked ==
    NormalEnd =>
        (declaredValid <=> (problematic_files = <<>> /\ files_to_process # <<>>))

C7_Witness ==
    /\ pc = "finished"
    /\ declaredValid
    /\ Len(results.keys) = 2

\* C8, as stated: a digest task that returns a digest returns with it the
\* number of blocks it hashed; when the file changed under it, so that the
\* size read at line 47 is not that number, it returns the error outcome.
C8_Claim ==
    [][\A i \in DOMAIN futures :
          (/\ i \in DOMAIN futures'
           /\ futures[i].st = "read"
           /\ futures'[i].st = "done"
           /\ ~futures'[i].out.exc
           /\ futures'[i].out.sha # ERROR)
          => futures'[i].out.size = Len(futures[i].hashed)]_vars

\* what a run without interference and without I/O errors must report: a
\* function of the manifest and of the directory alone
UndisturbedProblems ==
    LET names == {official_metadata.keys[k] : k \in DOMAIN official_metadata.keys}
        text(n) == ExpectedText([sha256 |-> HexDigest(fs[n]), size |-> Len(fs[n])],
                                DictGet(official_metadata, n))
    IN  {[name |-> n, reason |-> <<MISSING_LOCALLY>>] :
            n \in {m \in names : /\ fs[m] = Absent
                                 /\ (EndsWithExt(m, "safetensors") \/ m \in {CFG, TOK, IDX})}}
        \cup {[name |-> n, reason |-> text(n)] :
                n \in {m \in names : fs[m] # Absent /\ text(m) # <<>>}}

Undisturbed ==
    /\ extLeft = MaxExt
    /\ attempts = <<>>
    /\ \A i \in DOMAIN results.keys : Computed(results.val[i])

\* C9: with the same manifest and the same file contents, the set of
\* (filename, reasons) problems and the verdict do not depend on the order
\* in which the digest tasks were submitted or completed.
C9_OrderIndependent ==
    (PostReconcile /\ Undisturbed) =>
        /\ {problematic_files[k] : k \in DOMAIN problematic_files} = UndisturbedProblems
        /\ Len(problematic_files) = Cardinality(UndisturbedProblems)
        /\ pc = "finished" => (declaredValid <=> UndisturbedProblems = {})

\* two results collected against the submission order, one of them a problem
C9_Witness ==
    /\ pc = "finished"
    /\ Undisturbed
    /\ Len(results.keys) = 2
    /\ results.keys[1] = files_to_process[2].name
    /\ Len(problematic_files) = 1

FetchFailed ==
    fetched \in {"transport", "http_status", "bad_json", "bad_code", "no_data", "no_files"}

\* C10: when the manifest fetch fails (transport error, bad status, bad code
\* or shape of the body, malformed JSON) the run ends at once: no file is
\* submitted for hashing, none is removed, no prompt is shown and
\* attempt_redownload is not called.
C10_FetchFailureEndsRun ==
    FetchFailed =>
        /\ pc = "exit1"
        /\ files_to_process = <<>>
        /\ futures = <<>>
        /\ asked = <<>>
        /\ attempts = <<>>
        /\ fetchCalls = <<>>

\* a body with an error code, in a directory that holds a.safetensors
C10_Witness ==
    /\ pc = "exit1"
    /\ fetched = "bad_code"
    /\ fs[SAFE] # Absent

\* C11: whatever makes the manifest fetch fail -- a transport error, an
\* unexpected status, a body that is not JSON, a body without the expected
\* fields, a blob entry without Name, Sha256 or Size -- the function returns
\* the failure as a value and the run ends with the clean failure exit; no
\* exception leaves the function.
C11_Claim ==
    (FetchFailed \/ fetched = "bad_entry") => pc = "exit1"

\* C12: attempt_redownload is called at most once in a run, on the early
\* path, after the removals and on the only-missing path alike; it is one call
\* for the repository, never one per file, and a failed call is not repeated.
C12_FetcherAtMostOnce ==
    /\ Len(fetchCalls) <= 1
    /\ (fetchCalls # <<>> /\ ~fetchCalls[1]) => Terminated

\* a failed call after two removal attempts
C12_Witness ==
    /\ Terminated
    /\ fetchCalls = <<FALSE>>
    /\ Len(attempts) = 2

AttemptedPaths == [k \in DOMAIN attempts |-> attempts[k].path]

\* C13: after both confirmations every path of the removal list gets exactly
\* one os.remove attempt, in the order of the list, whether or not earlier
\* attempts failed, and the run then calls attempt_redownload once.
C13_EveryFileAttemptedThenFetch ==
    /\ pc = "remove" => AttemptedPaths = SubSeq(files_to_remove, 1, remIdx - 1)
    /\ (pc = "redownload" /\ BothConfirmed) =>
          AttemptedPaths = files_to_remove /\ fetchCalls = <<>>
    /\ (pc = "finished" /\ BothConfirmed) =>
          AttemptedPaths = files_to_remove /\ Len(fetchCalls) = 1

\* the first removal failed, the second succeeded, the re-download ran
C13_Witness ==
    /\ pc = "finished"
    /\ BothConfirmed
    /\ Len(attempts) = 2
    /\ ~attempts[1].removed
    /\ attempts[2].removed
    /\ Len(fetchCalls) = 1

ErrorOutcome(i) ==
    futures[i].st = "done" /\ (futures[i].out.exc \/ futures[i].out.sha = ERROR)

ProblemsOf(n) == {k \in DOMAIN problematic_files : problematic_files[k].name = n}

\* C14: a file whose task returned the 'error' sentinel or raised is, once
\* reconciliation has run, in problematic_files exactly once, and its reason is
\* the read-error text alone: no size text and no digest text, so nothing of
\* the manifest was compared with it.
C14_ErrorOutcomeIsReadError ==
    PostReconcile =>
        \A i \in DOMAIN futures :
            ErrorOutcome(i) =>
                /\ DictGet(results, futures[i].name).sha256 \in {ERROR, ERROR_PROCESSING}
                /\ Cardinality(ProblemsOf(futures[i].name)) = 1
                /\ \A k \in ProblemsOf(futures[i].name) :
                      problematic_files[k].reason = <<ERROR_TEXT>>

\* one task returned the sentinel, another raised
C14_Witness ==
    /\ PostReconcile
    /\ \E i, j \in DOMAIN futures :
          /\ futures[i].st = "done" /\ futures[i].out.exc
          /\ futures[j].st = "done" /\ ~futures[j].out.exc /\ futures[j].out.sha = ERROR
          /\ ProblemsOf(futures[i].name) # {}
          /\ ProblemsOf(futures[j].name) # {}

\* lines 121-128: what the main thread records for a finished task
Recorded(out) ==
    IF out.exc THEN [sha256 |-> ERROR_PROCESSING, size |-> -3]
    ELSE [sha256 |-> out.sha, size |-> out.size]

\* C15: reconciliation starts only when every submitted task has finished
\* and been collected; the results then have exactly one entry per submitted
\* file name and no other; and the entry of each file is the outcome of its own
\* task, whatever happened to the tasks of the other files.
C15_ScanIsBarrier ==
    /\ pc = "reconcile" =>
          /\ \A i \in DOMAIN futures : futures[i].st = "done" /\ futures[i].collected
          /\ Len(futures) = Len(files_to_process)
          /\ Len(results.keys) = Len(files_to_process)
          /\ {results.keys[k] : k \in DOMAIN results.keys} = ToProcessNames
    /\ \A i \in DOMAIN futures :
          futures[i].collected =>
              /\ futures[i].st = "done"
              /\ DictGet(results, futures[i].name) = Recorded(futures[i].out)

\* one task raised, the other computed a digest, and both are recorded
C15_Witness ==
    /\ pc = "reconcile"
    /\ \E i, j \in DOMAIN futures :
          /\ futures[i].out.exc
          /\ ~futures[j].out.exc
          /\ Computed(DictGet(results, futures[j].name))

\* C16: a step that calls os.remove or attempt_redownload is taken only
\* when every digest task has finished and the pool is shut down; it moves no
\* task, and it makes at most one os.remove call.
C16_DeletionAfterScan ==
    [][(attempts' # attempts \/ fetchCalls' # fetchCalls) =>
            /\ \A i \in DOMAIN futures : futures[i].st = "done"
            /\ executor = 0
            /\ futures' = futures
            /\ Len(attempts') <= Len(attempts) + 1
            /\ (attempts' # attempts => fetchCalls' = fetchCalls)]_vars

\* two tasks ran, two removals were attempted, the re-download ran
C16_Witness ==
    /\ Len(futures) = 2
    /\ Len(attempts) = 2
    /\ fetchCalls # <<>>

AllAnsweredYes == asked # <<>> /\ \A k \in DOMAIN asked : asked[k].answer \in YesTexts

\* C17: attempt_redownload is called only in a run whose operator answered
\* yes to a prompt: never with an empty problematic_files, never after a
\* refusal of the first prompt, and never after a refusal of "Confirm removal"
\* when the removal list is not empty.
C17_FetcherNeedsYes ==
    /\ fetchCalls # <<>> =>
          /\ problematic_files # <<>>
          /\ AllAnsweredYes
          /\ files_to_remove # <<>> => AnsweredYes("confirm_removal")
    /\ (Terminated /\ ~AllAnsweredYes) => fetchCalls = <<>>

\* a run that listed files for removal, was refused the confirmation and ended
C17_Witness ==
    /\ pc = "finished"
    /\ files_to_remove # <<>>
    /\ Len(asked) = 2
    /\ asked[1].answer \in YesTexts
    /\ asked[2].answer \notin YesTexts
    /\ fetchCalls = <<>>

\* C18: every path passed to os.remove is a manifest file of the model
\* directory that reconciliation recorded with a reason other than "Missing
\* locally"; a file whose result matched the manifest, and a local file the
\* manifest does not list, is never passed to os.remove.
C18_OnlyProblemFilesDeleted ==
    \A a \in DOMAIN attempts :
        LET n == attempts[a].path.name
        IN  /\ attempts[a].path.dir = LOCAL_MODEL_DIR
            /\ HasKey(official_metadata, n)
            /\ HasKey(results, n)
            /\ Reasons(DictGet(results, n).sha256, DictGet(results, n).size,
                       DictGet(official_metadata, n)) # <<>>
            /\ \E k \in DOMAIN problematic_files :
                  /\ problematic_files[k].name = n
                  /\ ~InSeq(MISSING_LOCALLY, problematic_files[k].reason)

\* a problem file was removed; a valid file and an unlisted file are still there
C18_Witness ==
    /\ pc = "finished"
    /\ \E a \in DOMAIN attempts : attempts[a].removed /\ attempts[a].path.name = SAFE
    /\ fs[SAFE] = Absent
    /\ HasKey(results, README)
    /\ README \notin ProblemNames
    /\ fs[README] # Absent
    /\ fs[EXTRA] # Absent

\* C19: a run that went through reconciliation with a non-empty
\* problematic_files, and whose operator answered yes to every prompt it
\* showed, has called attempt_redownload exactly once when it ends, also when
\* another process removed a problem file during the run.
C19_Claim ==
    (pc = "finished" /\ problematic_files # <<>> /\ AllAnsweredYes) =>
        Len(fetchCalls) = 1

====
